---- MODULE Spec2Model ----
(***************************************************************************)
(* A model of streamlit_app.py: the line classifier and document assembler *)
(* parse_structured_text_to_pdf, the loader load_pdf_documents and the     *)
(* page script that chains LLM initialisation, loading, summary            *)
(* generation, PDF rendering and the two download buttons.                 *)
(*                                                                         *)
(* A string is a sequence of characters; a character is a one-element      *)
(* TLA+ string, except the two non-ASCII characters, which are written by  *)
(* their code points.                                                      *)
(***************************************************************************)
EXTENDS Integers, Sequences, FiniteSets, TLC

VARIABLES
    \* parse_structured_text_to_pdf
    text,        \* the argument
    lines,       \* text.split('\n')
    idx,         \* position of the for loop in lines (next line to handle)
    line,        \* the loop variable after line.strip()
    para,        \* the Paragraph the current iteration constructed, or None
    story,       \* the list of flowables
    buffer,      \* the io.BytesIO the document is written to
    pdf_data,    \* the value returned, or None
    rpc,         \* position in the function
    thrown,      \* the exception the layout backend raised, or None
    err,         \* the exception the caller of the function sees, or None
    attempts,    \* doc.build invocations of the current call
    now,         \* the clock the layout backend reads
    calls,       \* history: one record per call that returned
    \* the page script
    spc,         \* position in the script
    uploaded_files, azure_endpoint, api_key, deployment_name, clicked,
    llm, documents, summary_result,
    events,      \* history: what the run did, in order
    offered,     \* the download buttons shown
    \* load_pdf_documents
    fidx,        \* position of the for loop in uploaded_files
    tmp_files,   \* temporary files that exist on disk
    all_documents,
    handled      \* history: the files whose load was attempted, in order

renderVars == <<text, lines, idx, line, para, story, buffer, pdf_data, rpc,
                thrown, err, attempts, now, calls>>
pageVars == <<spc, uploaded_files, azure_endpoint, api_key, deployment_name,
              clicked, llm, documents, summary_result, events, offered>>
loadVars == <<fidx, tmp_files, all_documents, handled>>
vars == <<renderVars, pageVars, loadVars>>

None == [kind |-> "None"]
NoError == "NoError"

---------------------------------------------------------------------------
(* Bounds of the model *)

MaxHeadingLen == 6
MaxListLen == 5
MaxCalls == 2
MaxRepeatLen == 2
MaxClock == 1
MaxFiles == 2
MaxPages == 2

---------------------------------------------------------------------------
(* Characters and the string operations the code uses *)

Bullet == "U+2022"
ArabicDigit == "U+0663"
Newline == "\n"

\* the characters str.strip() removes and the regex class \s accepts
Whitespace == {" ", "\t", Newline, "\r", "\f"}

IsSpace(c) == c \in Whitespace

AsciiDigits == {"0", "1", "2", "3", "4", "5", "6", "7", "8", "9"}

\* the regex class \d of a str pattern: every Unicode decimal digit
IsDigit(c) == c \in AsciiDigits \cup {ArabicDigit}

StartsWith(s, p) == Len(s) >= Len(p) /\ SubSeq(s, 1, Len(p)) = p

\* s[n:]
From(s, n) == SubSeq(s, n + 1, Len(s))

\* faulty variant of Strip: removes nothing
StripNothing(s) == s

Strip(s) ==
    LET keep == {i \in 1..Len(s) : ~IsSpace(s[i])}
    IN  IF keep = {} THEN <<>>
        ELSE LET lo == CHOOSE i \in keep : \A j \in keep : i <= j
                 hi == CHOOSE i \in keep : \A j \in keep : j <= i
             IN  SubSeq(s, lo, hi)

RECURSIVE Split(_)
Split(s) ==
    LET nl == {i \in 1..Len(s) : s[i] = Newline}
    IN  IF nl = {} THEN <<s>>
        ELSE LET k == CHOOSE i \in nl : \A j \in nl : i <= j
             IN  <<SubSeq(s, 1, k - 1)>> \o Split(From(s, k))

\* re.match(r'^\d+\.\s', line)
MatchNumbered(l) ==
    \E k \in 1..Len(l) :
        /\ \A i \in 1..k : IsDigit(l[i])
        /\ Len(l) >= k + 2
        /\ l[k + 1] = "."
        /\ IsSpace(l[k + 2])

---------------------------------------------------------------------------
(* Styles and flowables *)

\* getSampleStyleSheet(): a new sheet on every call
getSampleStyleSheet ==
    [n \in {"Normal", "Title", "Heading1", "Heading2", "Heading3"} |->
        [parent |-> "", fontSize |-> 10, leftIndent |-> 0]]

\* safe_add_style
safe_add_style(styles, name, style) ==
    IF name \in DOMAIN styles THEN styles
    ELSE [n \in DOMAIN styles \cup {name} |->
            IF n = name THEN style ELSE styles[n]]

create_pdf_styles ==
    LET s0 == getSampleStyleSheet
        s1 == safe_add_style(s0, "IRDAITitle",
                [parent |-> "Title", fontSize |-> 18, leftIndent |-> 0])
        s2 == safe_add_style(s1, "IRDAIMainHeader",
                [parent |-> "Heading1", fontSize |-> 14, leftIndent |-> 0])
        s3 == safe_add_style(s2, "IRDAISubHeader",
                [parent |-> "Heading2", fontSize |-> 12, leftIndent |-> 20])
        s4 == safe_add_style(s3, "IRDAISubSubHeader",
                [parent |-> "Heading3", fontSize |-> 11, leftIndent |-> 40])
        s5 == safe_add_style(s4, "IRDAIBodyText",
                [parent |-> "Normal", fontSize |-> 10, leftIndent |-> 0])
        s6 == safe_add_style(s5, "IRDAIBulletText",
                [parent |-> "Normal", fontSize |-> 10, leftIndent |-> 20])
    IN  s6

Paragraph(t, style) == [kind |-> "Paragraph", text |-> t, style |-> style]

Spacer(w, h) == [kind |-> "Spacer", width |-> w, height |-> h]

TitleCaption ==
    <<  "I", "R", "D", "A", "I", " ", "D", "o", "c", "u", "m", "e", "n",
        "t", " ", "A", "n", "a", "l", "y", "s", "i", "s", " ", "S", "u",
        "m", "m", "a", "r", "y" >>

\* faulty variant of Title: the caption is the input
TitleFromInput == Paragraph(text, "IRDAITitle")

Title == Paragraph(TitleCaption, "IRDAITitle")

\* faulty variant of FreshStory: the list of the previous call is kept
StaleStory == story

\* story = []
FreshStory == <<>>

---------------------------------------------------------------------------
(* The classification chain of the loop body, for a stripped line *)

\* faulty variant of Classify: '##' is tested without its space
ClassifyLooseHash(l) ==
    IF StartsWith(l, <<"#", "#">>)
    THEN Paragraph(Strip(From(l, 3)), "IRDAIMainHeader")
    ELSE IF StartsWith(l, <<"#", "#", "#", " ">>)
    THEN Paragraph(Strip(From(l, 4)), "IRDAISubHeader")
    ELSE IF StartsWith(l, <<"#", "#", "#", "#", " ">>)
    THEN Paragraph(Strip(From(l, 5)), "IRDAISubSubHeader")
    ELSE IF StartsWith(l, <<Bullet, " ">>) \/ StartsWith(l, <<"-", " ">>)
    THEN Paragraph(<<Bullet, " ">> \o Strip(From(l, 2)), "IRDAIBulletText")
    ELSE IF MatchNumbered(l)
    THEN Paragraph(l, "IRDAIBulletText")
    ELSE IF l # <<>> THEN Paragraph(l, "IRDAIBodyText") ELSE None

\* faulty variant of Classify: the main header is cut at line[4:]
ClassifyWrongOffset(l) ==
    IF StartsWith(l, <<"#", "#", " ">>)
    THEN Paragraph(Strip(From(l, 4)), "IRDAIMainHeader")
    ELSE IF StartsWith(l, <<"#", "#", "#", " ">>)
    THEN Paragraph(Strip(From(l, 4)), "IRDAISubHeader")
    ELSE IF StartsWith(l, <<"#", "#", "#", "#", " ">>)
    THEN Paragraph(Strip(From(l, 5)), "IRDAISubSubHeader")
    ELSE IF StartsWith(l, <<Bullet, " ">>) \/ StartsWith(l, <<"-", " ">>)
    THEN Paragraph(<<Bullet, " ">> \o Strip(From(l, 2)), "IRDAIBulletText")
    ELSE IF MatchNumbered(l)
    THEN Paragraph(l, "IRDAIBulletText")
    ELSE IF l # <<>> THEN Paragraph(l, "IRDAIBodyText") ELSE None

\* faulty variant of Classify: a bullet line keeps its own marker
ClassifyKeepMarker(l) ==
    IF StartsWith(l, <<"#", "#", " ">>)
    THEN Paragraph(Strip(From(l, 3)), "IRDAIMainHeader")
    ELSE IF StartsWith(l, <<"#", "#", "#", " ">>)
    THEN Paragraph(Strip(From(l, 4)), "IRDAISubHeader")
    ELSE IF StartsWith(l, <<"#", "#", "#", "#", " ">>)
    THEN Paragraph(Strip(From(l, 5)), "IRDAISubSubHeader")
    ELSE IF StartsWith(l, <<Bullet, " ">>) \/ StartsWith(l, <<"-", " ">>)
    THEN Paragraph(l, "IRDAIBulletText")
    ELSE IF MatchNumbered(l)
    THEN Paragraph(l, "IRDAIBulletText")
    ELSE IF l # <<>> THEN Paragraph(l, "IRDAIBodyText") ELSE None

Classify(l) ==
    IF StartsWith(l, <<"#", "#", " ">>)
    THEN Paragraph(Strip(From(l, 3)), "IRDAIMainHeader")
    ELSE IF StartsWith(l, <<"#", "#", "#", " ">>)
    THEN Paragraph(Strip(From(l, 4)), "IRDAISubHeader")
    ELSE IF StartsWith(l, <<"#", "#", "#", "#", " ">>)
    THEN Paragraph(Strip(From(l, 5)), "IRDAISubSubHeader")
    ELSE IF StartsWith(l, <<Bullet, " ">>) \/ StartsWith(l, <<"-", " ">>)
    THEN Paragraph(<<Bullet, " ">> \o Strip(From(l, 2)), "IRDAIBulletText")
    ELSE IF MatchNumbered(l)
    THEN Paragraph(l, "IRDAIBulletText")
    ELSE IF l # <<>> THEN Paragraph(l, "IRDAIBodyText") ELSE None

---------------------------------------------------------------------------
(* The layout backend *)

\* the exceptions constructing a Paragraph and doc.build can raise
ParagraphError == "ParagraphError"
BuildError == "BuildError"

\* what doc.build writes for a story: the laid-out flowables and the
\* document information. SimpleDocTemplate is created without invariant=1,
\* so ReportLab puts the time of generation (CreationDate, ModDate and the
\* document ID derived from it) into the file.
Serialize(flowables, stamp) ==
    [kind |-> "bytes", data |-> <<[CreationDate |-> stamp]>> \o flowables]

\* io.BytesIO()
BytesIO == [kind |-> "bytes", data |-> <<>>]

\* faulty variant of Propagate: the exception is caught and the buffer returned
SwallowAndReturn(e) ==
    /\ rpc' = "returned"
    /\ err' = NoError
    /\ pdf_data' = buffer

\* an exception leaves the function: there is no handler in it
Propagate(e) ==
    /\ rpc' = "raised"
    /\ err' = e
    /\ pdf_data' = None

---------------------------------------------------------------------------
(* parse_structured_text_to_pdf *)

\* buffer, doc, styles, the title, the spacer and the split
RenderStart ==
    /\ rpc = "called"
    /\ "IRDAITitle" \in DOMAIN create_pdf_styles
    /\ buffer' = BytesIO
    /\ story' = FreshStory \o <<Title, Spacer(1, 20)>>
    /\ lines' = Split(text)
    /\ idx' = 1
    /\ rpc' = "loop"
    /\ UNCHANGED <<text, line, para, pdf_data, thrown, err, attempts, now, calls>>

\* one iteration of the for loop
ProcessLine ==
    /\ rpc = "loop"
    /\ idx <= Len(lines)
    /\ line' = Strip(lines[idx])
    /\ IF line' = <<>> \/ Classify(line') = None
       THEN /\ para' = None
            /\ idx' = idx + 1
            /\ UNCHANGED <<story, rpc, thrown, err, pdf_data>>
       ELSE \/ /\ Classify(line').style \in DOMAIN create_pdf_styles
               /\ para' = Classify(line')
               /\ story' = Append(story, para')
               /\ idx' = idx + 1
               /\ UNCHANGED <<rpc, thrown, err, pdf_data>>
            \/ /\ thrown' = ParagraphError
               /\ Propagate(ParagraphError)
               /\ para' = None
               /\ UNCHANGED <<story, idx>>
    /\ UNCHANGED <<text, lines, buffer, attempts, now, calls>>

\* doc.build(story), buffer.getvalue(), return
Build ==
    /\ rpc = "loop"
    /\ idx > Len(lines)
    /\ attempts' = attempts + 1
    /\ \/ /\ buffer' = Serialize(story, now)
          /\ pdf_data' = buffer'
          /\ rpc' = "returned"
          /\ calls' = [calls EXCEPT ![Len(calls)] =
                          [text |-> text, story |-> story, stamp |-> now,
                           out |-> pdf_data']]
          /\ UNCHANGED <<thrown, err>>
       \/ /\ \E partial \in {BytesIO, Serialize(<<story[1]>>, now)} :
                buffer' = partial
          /\ thrown' = BuildError
          /\ Propagate(BuildError)
          /\ UNCHANGED calls
    /\ UNCHANGED <<text, lines, idx, line, para, story, now>>

\* a caller invokes the function on a text of T; limit bounds the calls of a run
Invoke(T, limit) ==
    /\ rpc \in {"idle", "returned", "raised"}
    /\ Len(calls) < limit
    /\ \E t \in T :
          /\ text' = t
          /\ calls' = Append(calls, [text |-> t, story |-> <<>>,
                                     stamp |-> now, out |-> None])
    /\ rpc' = "called"
    /\ pdf_data' = None
    /\ thrown' = NoError
    /\ err' = NoError
    /\ attempts' = 0
    /\ UNCHANGED <<lines, idx, line, para, story, buffer, now>>

\* time passes between and during calls
Tick ==
    /\ now < MaxClock
    /\ now' = now + 1
    /\ UNCHANGED <<text, lines, idx, line, para, story, buffer, pdf_data, rpc,
                   thrown, err, attempts, calls>>

---------------------------------------------------------------------------
(* The inputs of the renderer *)

SeqsUpTo(S, n) == UNION {[1..k -> S] : k \in 0..n}

HeadingChars == {"#", " ", "a", Newline}
ListChars == {"-", Bullet, " ", "1", ArabicDigit, ".", "#"}
RepeatChars == {"a", Newline}

Texts == SeqsUpTo(HeadingChars, MaxHeadingLen) \cup SeqsUpTo(ListChars, MaxListLen)
RepeatTexts == SeqsUpTo(RepeatChars, MaxRepeatLen)

PageIdle ==
    /\ spc = "none"
    /\ uploaded_files = <<>>
    /\ azure_endpoint = "" /\ api_key = "" /\ deployment_name = ""
    /\ clicked = FALSE
    /\ llm = None /\ documents = <<>> /\ summary_result = None
    /\ events = <<>> /\ offered = {}
    /\ fidx = 1 /\ tmp_files = {} /\ all_documents = <<>> /\ handled = <<>>

RenderIdle ==
    /\ text = <<>> /\ lines = <<>> /\ idx = 1 /\ line = <<>> /\ para = None
    /\ story = <<>> /\ buffer = None /\ pdf_data = None
    /\ thrown = NoError /\ err = NoError /\ attempts = 0 /\ now = 0
    /\ calls = <<>> /\ rpc = "idle"

\* one call of the function, on any text
InitRender == PageIdle /\ RenderIdle

NextRender ==
    \/ (Invoke(Texts, 1) /\ UNCHANGED <<pageVars, loadVars>>)
    \/ (RenderStart /\ UNCHANGED <<pageVars, loadVars>>)
    \/ (ProcessLine /\ UNCHANGED <<pageVars, loadVars>>)
    \/ (Build /\ UNCHANGED <<pageVars, loadVars>>)

SpecRender == InitRender /\ [][NextRender]_vars

\* several calls of the function, at different times
NextRepeat ==
    \/ (Invoke(RepeatTexts, MaxCalls) /\ UNCHANGED <<pageVars, loadVars>>)
    \/ (Tick /\ UNCHANGED <<pageVars, loadVars>>)
    \/ (RenderStart /\ UNCHANGED <<pageVars, loadVars>>)
    \/ (ProcessLine /\ UNCHANGED <<pageVars, loadVars>>)
    \/ (Build /\ UNCHANGED <<pageVars, loadVars>>)

SpecRepeat == InitRender /\ [][NextRepeat]_vars

---------------------------------------------------------------------------
(* load_pdf_documents *)

\* an uploaded file: the pages PyPDFLoader finds in it, or a file the
\* loader raises on
Files == [pages : 0..MaxPages, ok : BOOLEAN]

\* loader.load(): one document per page
Load(i) == [p \in 1..uploaded_files[i].pages |-> [file |-> i, page |-> p]]

\* faulty variant of Unlink: the file stays
UnlinkNever(paths, path) == paths

\* os.unlink(tmp_file_path), when the path exists
Unlink(paths, path) == paths \ {path}

\* the with block: the temporary file is written and kept (delete=False)
LoadWrite ==
    /\ spc = "load_write"
    /\ fidx <= Len(uploaded_files)
    /\ tmp_files' = tmp_files \cup {fidx}
    /\ spc' = "load_try"
    /\ UNCHANGED <<fidx, all_documents, handled>>
    /\ UNCHANGED <<uploaded_files, azure_endpoint, api_key, deployment_name,
                   clicked, llm, documents, summary_result, events, offered>>

\* try: load and extend; except Exception: report
LoadTry ==
    /\ spc = "load_try"
    /\ handled' = Append(handled, fidx)
    /\ IF uploaded_files[fidx].ok
       THEN all_documents' = all_documents \o Load(fidx)
       ELSE all_documents' = all_documents
    /\ spc' = "load_finally"
    /\ UNCHANGED <<fidx, tmp_files>>
    /\ UNCHANGED <<uploaded_files, azure_endpoint, api_key, deployment_name,
                   clicked, llm, documents, summary_result, events, offered>>

\* finally: remove the temporary file; next file
LoadFinally ==
    /\ spc = "load_finally"
    /\ tmp_files' = IF fidx \in tmp_files THEN Unlink(tmp_files, fidx)
                    ELSE tmp_files
    /\ fidx' = fidx + 1
    /\ spc' = "load_write"
    /\ UNCHANGED <<all_documents, handled>>
    /\ UNCHANGED <<uploaded_files, azure_endpoint, api_key, deployment_name,
                   clicked, llm, documents, summary_result, events, offered>>

---------------------------------------------------------------------------
(* The page script *)

LLM == [kind |-> "AzureChatOpenAI"]

PyStr(v) == [kind |-> "str", value |-> v]

\* what the chain can return
SummaryTexts ==
    { <<>>, <<" ">>, <<"a">>,
      <<"#", "#", " ", "a", Newline, "-", " ", "a">> }

\* faulty variant of TruthyLlm: the test is dropped
AlwaysTruthy(v) == TRUE

\* if llm:
TruthyLlm(v) == v # None

\* if summary_result:
TruthyStr(v) == v # None /\ v.value # <<>>

Log(e) == events' = Append(events, e)

\* if uploaded_files and azure_endpoint and api_key and deployment_name,
\* elif uploaded_files, else
Guard ==
    /\ spc = "guard"
    /\ IF /\ uploaded_files # <<>>
          /\ azure_endpoint # "" /\ api_key # "" /\ deployment_name # ""
       THEN spc' = "button"
       ELSE spc' = "footer"
    /\ UNCHANGED <<uploaded_files, azure_endpoint, api_key, deployment_name,
                   clicked, llm, documents, summary_result, events, offered>>
    /\ UNCHANGED loadVars

\* if st.button(...)
Button ==
    /\ spc = "button"
    /\ spc' = IF clicked THEN "init" ELSE "footer"
    /\ UNCHANGED <<uploaded_files, azure_endpoint, api_key, deployment_name,
                   clicked, llm, documents, summary_result, events, offered>>
    /\ UNCHANGED loadVars

\* llm = initialize_azure_openai(...); if llm:
InitializeAzureOpenAI ==
    /\ spc = "init"
    /\ \/ llm' = LLM /\ Log("init_ok")
       \/ llm' = None /\ Log("init_failed")
    /\ IF TruthyLlm(llm')
       THEN spc' = "load_write"
       ELSE spc' = "footer"
    /\ fidx' = 1 /\ all_documents' = <<>>
    /\ UNCHANGED <<tmp_files, handled>>
    /\ UNCHANGED <<uploaded_files, azure_endpoint, api_key, deployment_name,
                   clicked, documents, summary_result, offered>>

\* return all_documents; if documents:
LoadReturn ==
    /\ spc = "load_write"
    /\ fidx > Len(uploaded_files)
    /\ documents' = all_documents
    /\ Log("load_done")
    /\ spc' = IF documents' # <<>> THEN "analyze" ELSE "footer"
    /\ UNCHANGED <<uploaded_files, azure_endpoint, api_key, deployment_name,
                   clicked, llm, summary_result, offered>>
    /\ UNCHANGED loadVars

\* summary_result = analyze_documents_summary(documents, llm); if summary_result:
Analyze ==
    /\ spc = "analyze"
    /\ \/ \* an exception before chain.run
          /\ summary_result' = None
          /\ UNCHANGED events
       \/ \* chain.run raises
          /\ summary_result' = None
          /\ Log("llm_called")
       \/ \E r \in SummaryTexts :
             /\ summary_result' = PyStr(r)
             /\ Log("llm_called")
    /\ spc' = IF TruthyStr(summary_result') THEN "render" ELSE "footer"
    /\ UNCHANGED <<uploaded_files, azure_endpoint, api_key, deployment_name,
                   clicked, llm, documents, offered>>
    /\ UNCHANGED loadVars

\* pdf_data = parse_structured_text_to_pdf(summary_result)
RenderCall ==
    /\ spc = "render"
    /\ Invoke({summary_result.value}, 1)
    /\ Log("render_start")
    /\ spc' = "rendering"
    /\ UNCHANGED <<uploaded_files, azure_endpoint, api_key, deployment_name,
                   clicked, llm, documents, summary_result, offered>>
    /\ UNCHANGED loadVars

\* the call returns, or its exception ends the run of the script
RenderReturn ==
    /\ spc = "rendering"
    /\ \/ rpc = "returned" /\ Log("rendered") /\ spc' = "download_txt"
       \/ rpc = "raised" /\ Log("render_raised") /\ spc' = "aborted"
    /\ UNCHANGED <<uploaded_files, azure_endpoint, api_key, deployment_name,
                   clicked, llm, documents, summary_result, offered>>
    /\ UNCHANGED loadVars

DownloadText ==
    /\ spc = "download_txt"
    /\ offered' = offered \cup {"text"}
    /\ spc' = "download_pdf"
    /\ UNCHANGED <<uploaded_files, azure_endpoint, api_key, deployment_name,
                   clicked, llm, documents, summary_result, events>>
    /\ UNCHANGED loadVars

DownloadPdf ==
    /\ spc = "download_pdf"
    /\ offered' = offered \cup {"pdf"}
    /\ spc' = "footer"
    /\ UNCHANGED <<uploaded_files, azure_endpoint, api_key, deployment_name,
                   clicked, llm, documents, summary_result, events>>
    /\ UNCHANGED loadVars

Footer ==
    /\ spc = "footer"
    /\ spc' = "done"
    /\ UNCHANGED <<uploaded_files, azure_endpoint, api_key, deployment_name,
                   clicked, llm, documents, summary_result, events, offered>>
    /\ UNCHANGED loadVars

\* one run of the script, on any widget state
InitPage ==
    /\ RenderIdle
    /\ spc = "guard"
    /\ uploaded_files \in SeqsUpTo(Files, MaxFiles)
    /\ azure_endpoint \in {"", "https://"}
    /\ api_key \in {"", "key"}
    /\ deployment_name \in {"", "gpt"}
    /\ clicked \in BOOLEAN
    /\ llm = None /\ documents = <<>> /\ summary_result = None
    /\ events = <<>> /\ offered = {}
    /\ fidx = 1 /\ tmp_files = {} /\ all_documents = <<>> /\ handled = <<>>

NextPage ==
    \/ (Guard /\ UNCHANGED renderVars)
    \/ (Button /\ UNCHANGED renderVars)
    \/ (InitializeAzureOpenAI /\ UNCHANGED renderVars)
    \/ (LoadWrite /\ UNCHANGED renderVars)
    \/ (LoadTry /\ UNCHANGED renderVars)
    \/ (LoadFinally /\ UNCHANGED renderVars)
    \/ (LoadReturn /\ UNCHANGED renderVars)
    \/ (Analyze /\ UNCHANGED renderVars)
    \/ RenderCall
    \/ (RenderStart /\ UNCHANGED <<pageVars, loadVars>>)
    \/ (ProcessLine /\ UNCHANGED <<pageVars, loadVars>>)
    \/ (Build /\ UNCHANGED <<pageVars, loadVars>>)
    \/ (RenderReturn /\ UNCHANGED renderVars)
    \/ (DownloadText /\ UNCHANGED renderVars)
    \/ (DownloadPdf /\ UNCHANGED renderVars)
    \/ (Footer /\ UNCHANGED renderVars)

SpecPage == InitPage /\ [][NextPage]_vars

---------------------------------------------------------------------------
(* Definitions the properties are stated with *)

OnlyWhitespace(l) == \A i \in 1..Len(l) : IsSpace(l[i])

RECURSIVE DropLeadingSpace(_)
DropLeadingSpace(s) ==
    IF s # <<>> /\ IsSpace(Head(s)) THEN DropLeadingSpace(Tail(s)) ELSE s

RECURSIVE DropTrailingSpace(_)
DropTrailingSpace(s) ==
    IF s # <<>> /\ IsSpace(s[Len(s)])
    THEN DropTrailingSpace(SubSeq(s, 1, Len(s) - 1)) ELSE s

Trimmed(s) == DropTrailingSpace(DropLeadingSpace(s))

NonBlank(ls) == SelectSeq(ls, LAMBDA l : ~OnlyWhitespace(l))

\* the flowables of a story that follow its first
Blocks(st) == SelectSeq(Tail(st), LAMBDA f : f.kind = "Paragraph")

H3Prefix == <<"#", "#", "#", "#", " ">>
H2Prefix == <<"#", "#", "#", " ">>
H1Prefix == <<"#", "#", " ">>
DashPrefix == <<"-", " ">>
BulletPrefix == <<Bullet, " ">>

HeadingPrefixes == {H3Prefix, H2Prefix, H1Prefix}

\* digits, a dot, a whitespace character, for a given class of digits
Numbered(l, digits) ==
    \E k \in 1..Len(l) :
        /\ \A i \in 1..k : l[i] \in digits
        /\ Len(l) >= k + 2
        /\ l[k + 1] = "."
        /\ l[k + 2] \in Whitespace

\* the precedence of the specification, first match wins
SpecTier(l) ==
    IF StartsWith(l, H3Prefix) THEN "H3"
    ELSE IF StartsWith(l, H2Prefix) THEN "H2"
    ELSE IF StartsWith(l, H1Prefix) THEN "H1"
    ELSE IF StartsWith(l, BulletPrefix) \/ StartsWith(l, DashPrefix) THEN "ListItem"
    ELSE IF Numbered(l, AsciiDigits \cup {ArabicDigit}) THEN "ListItem"
    ELSE "Body"

TierOf(style) ==
    CASE style = "IRDAITitle" -> {"Title"}
      [] style = "IRDAIMainHeader" -> {"H1"}
      [] style = "IRDAISubHeader" -> {"H2"}
      [] style = "IRDAISubSubHeader" -> {"H3"}
      [] style = "IRDAIBulletText" -> {"ListItem"}
      [] style = "IRDAIBodyText" -> {"Body"}
      [] OTHER -> {}

LineStyles == {"IRDAIMainHeader", "IRDAISubHeader", "IRDAISubSubHeader",
               "IRDAIBulletText", "IRDAIBodyText"}

\* the loop has just handled a line and constructed a Paragraph for it
Classified == rpc = "loop" /\ idx > 1 /\ para # None

\* the line of the input the loop has just handled, before strip()
Raw == lines[idx - 1]

---------------------------------------------------------------------------
(* Properties *)

\* C1: the tier the chain chooses for a trimmed non-empty line is the tier
\* of the specification's first-match-wins precedence; every such line gets
\* exactly one tier; '#### ' is always H3 and '### ' never H1.
C1_Precedence ==
    /\ (rpc = "loop" /\ idx > 1 /\ line # <<>>) => para # None
    /\ Classified =>
        /\ TierOf(para.style) = {SpecTier(line)}
        /\ StartsWith(line, H3Prefix) => para.style = "IRDAISubSubHeader"
        /\ StartsWith(line, H2Prefix) => para.style # "IRDAIMainHeader"

C1_Witness ==
    /\ Classified
    /\ StartsWith(line, H3Prefix)
    /\ para = Paragraph(<<"a">>, "IRDAISubSubHeader")

\* C2: the blocks after the title correspond one to one, in input order, to
\* the lines that are not blank after trimming; no block for a blank line.
C2_OneBlockPerLine ==
    rpc \in {"loop", "returned"} =>
        LET nb == NonBlank(SubSeq(lines, 1, idx - 1))
            b == Blocks(story)
        IN  /\ Len(b) = Len(nb)
            /\ \A k \in 1..Len(b) : b[k] = Classify(Trimmed(nb[k]))

C2_Witness ==
    /\ rpc = "returned"
    /\ lines = << <<"a">>, <<>>, <<>>, <<"a">> >>
    /\ Blocks(story) = << Paragraph(<<"a">>, "IRDAIBodyText"),
                          Paragraph(<<"a">>, "IRDAIBodyText") >>

\* C3 as stated: the Title block is first, appears once, has a fixed caption,
\* only line-derived blocks follow it, and a blank input gives a document
\* that contains the Title block alone.
C3_TitleOnly ==
    rpc \in {"loop", "returned"} =>
        /\ story[1] = Paragraph(TitleCaption, "IRDAITitle")
        /\ \A k \in 2..Len(story) :
              story[k].kind = "Paragraph" /\ story[k].style \in LineStyles
        /\ (rpc = "returned" /\ OnlyWhitespace(text)) => Len(story) = 1

\* C3 amended: the Title block is first, appears once, has a fixed caption;
\* a fixed Spacer follows it and only line-derived blocks follow the Spacer;
\* a blank input gives a document of the Title block and the Spacer.
C3_TitleThenSpacer ==
    rpc \in {"loop", "returned"} =>
        /\ story[1] = Paragraph(TitleCaption, "IRDAITitle")
        /\ story[2] = Spacer(1, 20)
        /\ \A k \in 3..Len(story) :
              story[k].kind = "Paragraph" /\ story[k].style \in LineStyles
        /\ (rpc = "returned" /\ OnlyWhitespace(text)) => Len(story) = 2
        /\ rpc = "returned" =>
              pdf_data.data = <<[CreationDate |-> calls[Len(calls)].stamp]>> \o story

C3_Witness ==
    /\ rpc = "returned"
    /\ text = <<" ", Newline, " ">>
    /\ story = <<Paragraph(TitleCaption, "IRDAITitle"), Spacer(1, 20)>>

\* C4 as stated: for a trimmed line that starts with a heading prefix the
\* text of the block is exactly what follows the prefix; for a Body line it
\* is the full trimmed line.
C4_RemainderVerbatim ==
    Classified =>
        /\ \A p \in HeadingPrefixes :
              StartsWith(line, p) => para.text = From(line, Len(p))
        /\ para.style = "IRDAIBodyText" => para.text = line

\* C4 amended: for a trimmed line that starts with a heading prefix the text
\* of the block is what follows the prefix with its leading whitespace
\* removed; for a Body line it is the full trimmed line.
C4_RemainderStripped ==
    Classified =>
        /\ \A p \in HeadingPrefixes :
              StartsWith(line, p) =>
                  para.text = DropLeadingSpace(From(line, Len(p)))
        /\ para.style = "IRDAIBodyText" => para.text = line

C4_Witness ==
    /\ Classified
    /\ line = <<"#", "#", " ", " ", "a", "a">>
    /\ para = Paragraph(<<"a", "a">>, "IRDAIMainHeader")

\* C5 as stated: for every remainder r the lines '- ' r and the bullet
\* character, a space, r give a ListItem block with the text bullet, space, r.
C5_BulletVerbatim ==
    (rpc = "loop" /\ idx > 1) =>
        \A p \in {DashPrefix, BulletPrefix} :
            StartsWith(Raw, p) =>
                para = Paragraph(BulletPrefix \o From(Raw, 2), "IRDAIBulletText")

\* C5 amended: for every remainder r with a character that is not
\* whitespace, both lines give a ListItem block with the text bullet, space,
\* r without its leading and trailing whitespace (r itself when it has
\* none); for a remainder that is empty or all whitespace the trimmed line
\* is the marker alone and the block is a Body block.
C5_BulletNormalized ==
    (rpc = "loop" /\ idx > 1) =>
        \A p \in {DashPrefix, BulletPrefix} :
            StartsWith(Raw, p) =>
                LET r == From(Raw, 2)
                IN  IF OnlyWhitespace(r)
                    THEN para = Paragraph(<<p[1]>>, "IRDAIBodyText")
                    ELSE para = Paragraph(BulletPrefix \o Trimmed(r),
                                          "IRDAIBulletText")

C5_Witness ==
    /\ rpc = "loop" /\ idx > 1
    /\ Raw = <<"-", " ", " ", "1", " ">>
    /\ para = Paragraph(<<Bullet, " ", "1">>, "IRDAIBulletText")

\* C6: a trimmed line with no heading or bullet prefix is a numbered
\* ListItem if and only if it starts with one or more ASCII digits, a dot
\* and a whitespace character; the text of the block is then the line.
C6_AsciiNumbered ==
    (/\ Classified
     /\ \A p \in HeadingPrefixes \cup {DashPrefix, BulletPrefix} :
           ~StartsWith(line, p)) =>
        /\ para.style = "IRDAIBulletText" <=> Numbered(line, AsciiDigits)
        /\ Numbered(line, AsciiDigits) => para.text = line

\* C7: a failure of the layout backend reaches the caller unchanged, no
\* bytes are returned then, the build is attempted at most once, and bytes
\* are returned only for the whole document.
C7_FailurePropagates ==
    /\ attempts <= 1
    /\ thrown # NoError => rpc = "raised"
    /\ rpc = "raised" =>
          /\ pdf_data = None
          /\ err = thrown
          /\ err \in {ParagraphError, BuildError}
          /\ err = ParagraphError => attempts = 0
    /\ pdf_data # None =>
          /\ rpc = "returned"
          /\ err = NoError
          /\ attempts = 1
          /\ idx = Len(lines) + 1
          /\ Len(Blocks(story)) = Len(NonBlank(Split(text)))
          /\ pdf_data = Serialize(story, calls[Len(calls)].stamp)

C7_Witness ==
    /\ rpc = "raised"
    /\ thrown = BuildError
    /\ buffer = Serialize(<<story[1]>>, now)
    /\ pdf_data = None

Returned(c) == c.out # None

\* C8 as stated: two calls on the same input return the same bytes,
\* whatever was called before and whenever the calls are made.
C8_SameBytes ==
    \A i, j \in DOMAIN calls :
        (Returned(calls[i]) /\ Returned(calls[j]) /\ calls[i].text = calls[j].text)
            => calls[i].out = calls[j].out

\* C8 amended: two calls on the same input hand the same document to the
\* layout backend, whatever was called before and whenever the calls are
\* made, and return the same bytes when the generation time the backend
\* writes into the document is the same.
C8_SameDocument ==
    \A i, j \in DOMAIN calls :
        (Returned(calls[i]) /\ Returned(calls[j]) /\ calls[i].text = calls[j].text)
            => /\ calls[i].story = calls[j].story
               /\ calls[i].stamp = calls[j].stamp => calls[i].out = calls[j].out

C8_Witness ==
    /\ Len(calls) = 2
    /\ Returned(calls[1]) /\ Returned(calls[2])
    /\ calls[1].text = <<"a">> /\ calls[2].text = <<"a">>
    /\ calls[1].stamp = calls[2].stamp
    /\ calls[1].out = calls[2].out

Range(q) == {q[i] : i \in DOMAIN q}

\* C9: the two downloads are offered both or not at all, and only after the
\* LLM client was initialised, a page was loaded, a non-empty summary came
\* back and the renderer returned bytes, in this order; the LLM is not
\* called after a failed initialisation or with no page; rendering is not
\* started without a non-empty summary.
C9_DownloadsGated ==
    /\ spc \in {"footer", "done", "aborted"} => offered \in {{}, {"text", "pdf"}}
    /\ offered \subseteq {"text", "pdf"}
    /\ offered # {} =>
          /\ events = <<"init_ok", "load_done", "llm_called", "render_start",
                        "rendered">>
          /\ llm = LLM
          /\ Len(documents) >= 1
          /\ summary_result.kind = "str" /\ Len(summary_result.value) >= 1
          /\ pdf_data # None /\ rpc = "returned"
    /\ "llm_called" \in Range(events) =>
          /\ llm = LLM
          /\ "init_failed" \notin Range(events)
          /\ Len(documents) >= 1
    /\ "render_start" \in Range(events) =>
          /\ summary_result # None
          /\ Len(summary_result.value) >= 1
          /\ text = summary_result.value

C9_Witness ==
    /\ spc = "done"
    /\ offered = {"text", "pdf"}
    /\ summary_result = PyStr(<<" ">>)

RECURSIVE PagesOfLoaded(_, _)
PagesOfLoaded(files, i) ==
    IF i > Len(files) THEN <<>>
    ELSE (IF files[i].ok
          THEN [p \in 1..files[i].pages |-> [file |-> i, page |-> p]]
          ELSE <<>>) \o PagesOfLoaded(files, i + 1)

\* C10: whatever files fail to load, every file is processed, the temporary
\* file of a file is deleted before the next file is handled, and the list
\* returned is the pages of the files that loaded, in upload order.
C10_LoadIsolatesFailures ==
    /\ Cardinality(tmp_files) <= 1
    /\ spc = "load_write" => tmp_files = {}
    /\ spc \in {"load_try", "load_finally"} => tmp_files = {fidx}
    /\ "load_done" \in Range(events) =>
          /\ handled = [i \in 1..Len(uploaded_files) |-> i]
          /\ tmp_files = {}
          /\ documents = PagesOfLoaded(uploaded_files, 1)

C10_Witness ==
    /\ "load_done" \in Range(events)
    /\ Len(uploaded_files) = 2
    /\ ~uploaded_files[1].ok
    /\ uploaded_files[2].ok
    /\ Len(documents) = 2

====
